---- MODULE Spec2Model ----
(***************************************************************************)
(* Model of component/card/image.rs of yew-bootstrap: the function          *)
(* components CardImage and CardImageOverlay, their properties, and the     *)
(* yew `Classes` operations they call.                                      *)
(*                                                                          *)
(* `Classes` is yew's class list: an insertion-ordered SET of tokens        *)
(* (IndexSet).  Inserting a token that is already present is a no-op and    *)
(* leaves the token at its first position.  A Classes value is modelled as  *)
(* a sequence of tokens without repetition.                                 *)
(***************************************************************************)
EXTENDS Integers, Sequences, FiniteSets, TLC

\* ------------------------------------------------------------------ bounds
\* Longest class list a caller writes (before Classes removes repetitions).
MaxClasses == 2
\* Most children a caller nests in a CardImageOverlay.
MaxChildren == 2

\* ------------------------------------------------------------ input domains
\* Class tokens a caller may write: a base class of CardImage, the fixed
\* class of CardImageOverlay, and a class of the caller's own.
Tokens == {"card-img-top", "card-img-overlay", "foo"}
SrcValues == {"", "imgsrc.jpg"}
AltValues == {"", "desc"}
ChildValues == {"Text on top of image", "more"}

\* Marks a property the caller did not write in the html! invocation.
Omitted == [omitted |-> TRUE]
\* A property the caller wrote, with its value.
Some(v) == [some |-> v]
Opt(S) == {Some(v) : v \in S} \cup {Omitted}
\* No value: no props constructed, no node produced, nothing observed.
Nil == [nil |-> TRUE]

SeqsUpTo(S, n) == UNION {[1..k -> S] : k \in 0..n}
Range(s) == {s[i] : i \in 1..Len(s)}

\* phase    : "idle" (no call), "ready" (props constructed), "done" (node returned)
\* comp     : the component being rendered
\* supplied : the property names the caller wrote
\* props    : the properties the component function receives
\* node     : the Html the component function returned
\* seen     : one earlier, finished render (its component, props and node),
\*            kept to compare later renders with
VARIABLES phase, comp, supplied, props, node, seen

vars == <<phase, comp, supplied, props, node, seen>>

\* --------------------------------------------------------------- ImageVariant
ImageVariant == {"Default", "Top", "Bottom"}

\* ------------------------------------------------------------------- Classes
\* IndexSet insertion: a token already present stays where it is.
insert(set, t) == IF t \in Range(set) THEN set ELSE Append(set, t)

RECURSIVE insertAll(_, _)
insertAll(set, ts) ==
    IF ts = <<>> THEN set ELSE insertAll(insert(set, Head(ts)), Tail(ts))

\* Classes::from / classes!: collects the tokens into the set.
ClassesFrom(raw) == insertAll(<<>>, raw)

pushMoveLast(self, class) ==
    SelectSeq(self, LAMBDA t : t \notin Range(class)) \o class

pushAppend(self, class) == self \o class

\* Classes::push: if self is empty it becomes the pushed classes, otherwise
\* the pushed classes are inserted into the set.
push(self, class) ==
    IF self = <<>> THEN class ELSE insertAll(self, class)

RECURSIVE pushEach(_, _)
pushEach(self, ts) ==
    IF ts = <<>> THEN self ELSE pushEach(push(self, <<Head(ts)>>), Tail(ts))

extendConcat(self, other) == self \o other

extendFront(self, other) == pushEach(other, self)

\* Classes::extend: pushes every item of the iterator in turn.
extend(self, other) == pushEach(self, other)

\* ----------------------------------------------------------- CardImageProps
variantDefaultTop == "Top"

\* #[prop_or(ImageVariant::Default)]
variantDefault == "Default"
\* #[prop_or_default] on Classes and AttrValue
classDefault == <<>>
altDefault == ""
childrenDefault == <<>>

OrDefault(arg, default) == IF arg = Omitted THEN default ELSE arg.some

CardImageProps(variant, class, src, alt) ==
    [variant |-> OrDefault(variant, variantDefault),
     class   |-> IF class = Omitted THEN classDefault ELSE ClassesFrom(class.some),
     src     |-> src,
     alt     |-> OrDefault(alt, altDefault)]

CardImageOverlayProps(children, class) ==
    [children |-> OrDefault(children, childrenDefault),
     class    |-> IF class = Omitted THEN classDefault ELSE ClassesFrom(class.some)]

\* ------------------------------------------------------------------ CardImage
variantClassCopyPaste(variant) ==
    CASE variant = "Default" -> "card-img"
      [] variant = "Top"     -> "card-img"
      [] variant = "Bottom"  -> "card-img-bottom"

\* The match on props.variant.
variantClass(variant) ==
    CASE variant = "Default" -> "card-img"
      [] variant = "Top"     -> "card-img-top"
      [] variant = "Bottom"  -> "card-img-bottom"

CardImageStyle == "height: 180px; width: 100%; display: block;"

CardImageClasses(p) == extend(ClassesFrom(<<variantClass(p.variant)>>), p.class)

imgNodeSrc(classes, src, alt) ==
    [tag      |-> "img",
     attrs    |-> [a \in {"class", "src", "style", "alt"} |->
                     CASE a = "class" -> classes
                       [] a = "src"   -> src
                       [] a = "style" -> CardImageStyle
                       [] a = "alt"   -> alt],
     children |-> <<>>]

\* The html! block of CardImage: one img element.
imgNode(classes, src, alt) ==
    [tag      |-> "img",
     attrs    |-> [a \in {"class", "data-src", "style", "alt"} |->
                     CASE a = "class"    -> classes
                       [] a = "data-src" -> src
                       [] a = "style"    -> CardImageStyle
                       [] a = "alt"      -> alt],
     children |-> <<>>]

CardImageOnce(p) ==
    IF seen = Nil
    THEN imgNode(CardImageClasses(p), p.src, p.alt)
    ELSE imgNode(CardImageClasses(p), p.src, "")

CardImage(p) == imgNode(CardImageClasses(p), p.src, p.alt)

\* ----------------------------------------------------------- CardImageOverlay
CardImageOverlayClasses(p) == push(p.class, ClassesFrom(<<"card-img-overlay">>))

divNodeEmpty(classes, children) ==
    [tag      |-> "div",
     attrs    |-> [a \in {"class"} |-> classes],
     children |-> <<>>]

\* The html! block of CardImageOverlay: one div element around the children.
divNode(classes, children) ==
    [tag      |-> "div",
     attrs    |-> [a \in {"class"} |-> classes],
     children |-> children]

CardImageOverlay(p) == divNode(CardImageOverlayClasses(p), p.children)

\* ---------------------------------------------------------------- behaviour
Init ==
    /\ phase = "idle"
    /\ comp = "none"
    /\ supplied = {}
    /\ props = Nil
    /\ node = Nil
    /\ seen = Nil

\* The caller writes <CardImage ... /> : src is required, the rest optional.
NewCardImage ==
    /\ phase = "idle"
    /\ \E variant \in Opt(ImageVariant),
          class \in Opt(SeqsUpTo(Tokens, MaxClasses)),
          src \in SrcValues,
          alt \in Opt(AltValues) :
        /\ props' = CardImageProps(variant, class, src, alt)
        /\ supplied' = {"src"}
                        \cup (IF variant = Omitted THEN {} ELSE {"variant"})
                        \cup (IF class = Omitted THEN {} ELSE {"class"})
                        \cup (IF alt = Omitted THEN {} ELSE {"alt"})
    /\ comp' = "CardImage"
    /\ phase' = "ready"
    /\ node' = Nil
    /\ UNCHANGED seen

\* The caller writes <CardImageOverlay ...>children</CardImageOverlay>.
NewCardImageOverlay ==
    /\ phase = "idle"
    /\ \E children \in Opt(SeqsUpTo(ChildValues, MaxChildren)),
          class \in Opt(SeqsUpTo(Tokens, MaxClasses)) :
        /\ props' = CardImageOverlayProps(children, class)
        /\ supplied' = (IF children = Omitted THEN {} ELSE {"children"})
                        \cup (IF class = Omitted THEN {} ELSE {"class"})
    /\ comp' = "CardImageOverlay"
    /\ phase' = "ready"
    /\ node' = Nil
    /\ UNCHANGED seen

\* The host framework calls CardImage(&props).
RenderCardImage ==
    /\ phase = "ready"
    /\ comp = "CardImage"
    /\ node' = CardImage(props)
    /\ phase' = "done"
    /\ UNCHANGED <<comp, supplied, props, seen>>

\* The host framework calls CardImageOverlay(&props).
RenderCardImageOverlay ==
    /\ phase = "ready"
    /\ comp = "CardImageOverlay"
    /\ node' = CardImageOverlay(props)
    /\ phase' = "done"
    /\ UNCHANGED <<comp, supplied, props, seen>>

\* The component function has returned: the borrowed props and the returned
\* node go back to the host framework, which calls again on the next render.
Return ==
    /\ phase = "done"
    /\ phase' = "idle"
    /\ comp' = "none"
    /\ supplied' = {}
    /\ props' = Nil
    /\ node' = Nil
    /\ \/ seen' = seen
       \/ seen' = [comp |-> comp, props |-> props, node |-> node]

Next ==
    \/ NewCardImage
    \/ NewCardImageOverlay
    \/ RenderCardImage
    \/ RenderCardImageOverlay
    \/ Return

Spec == Init /\ [][Next]_vars

\* ------------------------------------------------------------------- helpers
ImageDone == phase = "done" /\ comp = "CardImage"
OverlayDone == phase = "done" /\ comp = "CardImageOverlay"
Rendered == phase = "done"
Without(s, ts) == SelectSeq(s, LAMBDA t : t \notin Range(ts))
Count(s, t) == Cardinality({i \in 1..Len(s) : s[i] = t})
Last(s) == s[Len(s)]
OverlayClass == "card-img-overlay"
\* The two class lists a component composes, and the rendered class attribute.
Base == IF comp = "CardImage" THEN <<variantClass(props.variant)>> ELSE props.class
Extra == IF comp = "CardImage" THEN props.class ELSE <<OverlayClass>>
Composed == node.attrs["class"]
SeenSame == seen # Nil /\ seen.comp = comp /\ seen.props = props

TypeOK ==
    /\ phase \in {"idle", "ready", "done"}
    /\ comp \in {"none", "CardImage", "CardImageOverlay"}
    /\ (phase = "idle") = (props = Nil)
    /\ (phase = "done") = (node # Nil)

\* ---------------------------------------------------------------------- C1
\* C1: the class CardImage starts from is "card-img" for Default,
\* "card-img-top" for Top and "card-img-bottom" for Bottom, and never any
\* other token.
C1_VariantMapping ==
    ImageDone =>
        /\ props.variant \in ImageVariant
        /\ props.variant = "Default" => Head(Composed) = "card-img"
        /\ props.variant = "Top" => Head(Composed) = "card-img-top"
        /\ props.variant = "Bottom" => Head(Composed) = "card-img-bottom"
        /\ Head(Composed) \in {"card-img", "card-img-top", "card-img-bottom"}

C1_Witness == ImageDone /\ props.variant = "Top" /\ Head(Composed) = "card-img-top"

\* ---------------------------------------------------------------------- C2
\* C2 as stated: the class attribute of the img is the base class followed
\* by all of the caller's classes, also when they contain the base class.
C2_AsStated ==
    ImageDone => Composed = <<variantClass(props.variant)>> \o props.class

\* C2 amended: the class attribute of the img is the base class followed by
\* the caller's classes in their order, except that a caller class equal to
\* the base class is not added a second time.
C2_BaseThenCallerOnce ==
    ImageDone =>
        Composed = <<variantClass(props.variant)>>
                     \o Without(props.class, <<variantClass(props.variant)>>)

C2_Witness ==
    /\ ImageDone
    /\ Len(props.class) = 2
    /\ variantClass(props.variant) \in Range(props.class)
    /\ Len(Composed) = 2

\* ---------------------------------------------------------------------- C3
\* C3 as stated: composing class lists A and B (extend in CardImage, push in
\* CardImageOverlay) gives A followed by B, of length len(A) + len(B), each
\* token as often as it occurs in A and B together.
C3_AsStated ==
    Rendered =>
        /\ Composed = Base \o Extra
        /\ Len(Composed) = Len(Base) + Len(Extra)
        /\ \A t \in Range(Base) \cup Range(Extra) :
               Count(Composed, t) = Count(Base, t) + Count(Extra, t)

\* C3 amended: composing A and B gives A followed by the tokens of B that
\* are not in A, in B's order; its length is len(A) plus the number of those
\* tokens, and every token of A or B occurs exactly once.
C3_ComposeIsSetUnion ==
    Rendered =>
        /\ Composed = Base \o Without(Extra, Base)
        /\ Len(Composed) = Len(Base) + Len(Without(Extra, Base))
        /\ Range(Composed) = Range(Base) \cup Range(Extra)
        /\ \A t \in Range(Base) \cup Range(Extra) : Count(Composed, t) = 1

C3_Witness ==
    /\ Rendered
    /\ Range(Base) \cap Range(Extra) # {}
    /\ Len(Composed) < Len(Base) + Len(Extra)

\* ---------------------------------------------------------------------- C4
\* C4 as stated: the class attribute of the overlay div is the caller's
\* classes followed by "card-img-overlay" as the last token, also when the
\* caller's classes already contain it.
C4_AsStated ==
    OverlayDone =>
        /\ Composed = props.class \o <<OverlayClass>>
        /\ Last(Composed) = OverlayClass

\* C4 amended: when the caller's classes do not contain "card-img-overlay"
\* the class attribute is the caller's classes followed by it as the last
\* token (so exactly <<"card-img-overlay">> for no caller classes); when
\* they do contain it, the class attribute is the caller's classes unchanged.
C4_OverlayPushedOnce ==
    OverlayDone =>
        /\ OverlayClass \notin Range(props.class) =>
               /\ Composed = props.class \o <<OverlayClass>>
               /\ Last(Composed) = OverlayClass
        /\ OverlayClass \in Range(props.class) => Composed = props.class
        /\ props.class = <<>> => Composed = <<OverlayClass>>

C4_Witness ==
    /\ OverlayDone
    /\ Len(props.class) = 2
    /\ Head(props.class) = OverlayClass
    /\ Last(Composed) # OverlayClass

C6_SrcPassedToSrc ==
    ImageDone =>
        /\ "src" \in DOMAIN node.attrs
        /\ node.attrs["src"] = props.src

\* ---------------------------------------------------------------------- C7
\* C7: CardImageOverlay returns one div whose content is exactly
\* props.children: the same children in the same order.
C7_ChildrenPassedThrough ==
    OverlayDone =>
        /\ node.tag = "div"
        /\ Len(node.children) = Len(props.children)
        /\ node.children = props.children

C7_Witness ==
    /\ OverlayDone
    /\ Len(props.children) = 2
    /\ props.children[1] # props.children[2]
    /\ node.children = props.children

\* ---------------------------------------------------------------------- C8
\* C8: when the caller writes only src, variant is Default, class is empty
\* and alt is empty, and the img has class <<"card-img">>, an empty alt and
\* the fixed style.
C8_Defaults ==
    (ImageDone /\ supplied = {"src"}) =>
        /\ props.variant = "Default"
        /\ props.class = <<>>
        /\ props.alt = ""
        /\ Composed = <<"card-img">>
        /\ node.attrs["alt"] = ""
        /\ node.attrs["style"] = "height: 180px; width: 100%; display: block;"

C8_Witness == ImageDone /\ supplied = {"src"} /\ props.src = "imgsrc.jpg"

C10_FixedTokenKept ==
    /\ ImageDone =>
           /\ Composed # <<>>
           /\ Head(Composed) = variantClass(props.variant)
    /\ OverlayDone => OverlayClass \in Range(Composed)

C10_Witness ==
    /\ ImageDone
    /\ Len(props.class) = 2
    /\ props.class[2] = variantClass(props.variant)
    /\ Head(Composed) = variantClass(props.variant)

====
